---- MODULE Spec2Model ----
(***************************************************************************)
(* A model of the delivery simulation backend (src/backend): the graph     *)
(* construction of graph.py (k-nearest-neighbour edges, thinning, random   *)
(* edges, connectivity repair, weights), the all-pairs Dijkstra index, the *)
(* tick of Graph.time_step / Driver.time_step, the assign-order route of   *)
(* routes.py and the simulation-loop thread of websocket_handler.py.       *)
(*                                                                         *)
(* Node ids, driver ids and order ids are 0-based as in the source.        *)
(* Positions are points of [0,1]^2 given in tenths, so that the weight     *)
(* max(1, round(10 * euclid)) of graph.py:261 is max(1, round(sqrt(d2)))   *)
(* with d2 the squared distance in tenths.                                 *)
(***************************************************************************)
EXTENDS Integers, Sequences, FiniteSets, TLC

\* ------------------------------------------------------------------ bounds
\* Largest node count of a constructed graph.
MaxNodes == 3
\* Largest driver count of a constructed graph.
MaxDrivers == 2
\* The points (in tenths of the unit square) node positions are drawn from.
Points == {<<0, 0>>, <<1, 0>>, <<3, 0>>}

\* np.inf of the distance matrix (graph.py:282): larger than every path weight.
Inf == 1000000
\* The sentinel -1 of path_matrix and previous (graph.py:283, 292); None of Driver.order.
NoNode == -1

NodesOf(n) == 0 .. (n - 1)
Min2(a, b) == IF a <= b THEN a ELSE b
Max2(a, b) == IF a >= b THEN a ELSE b

\* ------------------------------------------------------- geometry helpers
\* Squared euclidean distance of nodes i and j, in tenths squared
\* (the radicand of graph.py:127, 231, 259).
Dist2(pts, i, j) ==
    (pts[i][1] - pts[j][1]) * (pts[i][1] - pts[j][1])
  + (pts[i][2] - pts[j][2]) * (pts[i][2] - pts[j][2])

\* int(np.round(sqrt(d2))): the integer nearest to the square root; the root of
\* an integer is never half-way between two integers.
RoundSqrt(d2) ==
    IF d2 = 0 THEN 0
    ELSE CHOOSE r \in 1 .. d2 : r * r - r + 1 <= d2 /\ d2 <= r * r + r

\* graph.py:261  weight = max(1, int(np.round(w * 10)))
EdgeWeight(pts, a, b) == Max2(1, RoundSqrt(Dist2(pts, a, b)))

\* int(np.sqrt(n))
ISqrt(n) == CHOOSE r \in 0 .. n : r * r <= n /\ n < (r + 1) * (r + 1)

\* The undirected edge (min(i, j), max(i, j)) of graph.py:235, 252, 130.
Edge(i, j) == <<Min2(i, j), Max2(i, j)>>

\* ------------------------------------------------------ ensure_connected
\* The nodes reached from the set S by the breadth-first search of
\* graph.py:96-107 over the adjacency lists built from the edge set.
RECURSIVE Reach(_, _, _)
Reach(E, n, S) ==
    LET T == S \cup {j \in NodesOf(n) :
                       \E i \in S : <<i, j>> \in E \/ <<j, i>> \in E}
    IN  IF T = S THEN S ELSE Reach(E, n, T)

\* graph.py:89-109: the components in the order of their smallest node.
RECURSIVE ComponentsFrom(_, _, _, _)
ComponentsFrom(E, n, start, visited) ==
    IF start >= n THEN <<>>
    ELSE IF start \in visited THEN ComponentsFrom(E, n, start + 1, visited)
    ELSE LET c == Reach(E, n, {start})
         IN  <<c>> \o ComponentsFrom(E, n, start + 1, visited \cup c)

Components(E, n) == ComponentsFrom(E, n, 0, {})

\* A plausible slip: the first pair of the two components is taken, whatever
\* its distance.
BestEdge_first(pts, A, B) ==
    LET first == CHOOSE p \in A \X B :
                    \A q \in A \X B : p[1] < q[1] \/ (p[1] = q[1] /\ p[2] <= q[2])
    IN  Edge(first[1], first[2])

\* graph.py:122-130: the first pair (i ascending, then j ascending, the order
\* in which CPython iterates a set of small integers) of strictly smallest
\* distance between the two components.
BestEdge(pts, A, B) ==
    LET better(p, q) ==
            \/ Dist2(pts, p[1], p[2]) < Dist2(pts, q[1], q[2])
            \/ /\ Dist2(pts, p[1], p[2]) = Dist2(pts, q[1], q[2])
               /\ (p[1] < q[1] \/ (p[1] = q[1] /\ p[2] <= q[2]))
        best == CHOOSE p \in A \X B : \A q \in A \X B : better(p, q)
    IN  Edge(best[1], best[2])

\* graph.py:118-137: pop the first two components, join them, append the union.
RECURSIVE MergeLoop(_, _, _)
MergeLoop(E, pts, comps) ==
    IF Len(comps) <= 1 THEN E
    ELSE LET a == comps[1]
             b == comps[2]
             rest == SubSeq(comps, 3, Len(comps))
         IN  MergeLoop(E \cup {BestEdge(pts, a, b)}, pts,
                       Append(rest, a \cup b))

\* A plausible slip: only the first two components are joined.
ensure_connected_once(E, pts, n) ==
    LET comps == Components(E, n)
    IN  IF Len(comps) <= 1 THEN E
        ELSE E \cup {BestEdge(pts, comps[1], comps[2])}

\* graph.py:76-139
ensure_connected(E, pts, n) ==
    LET comps == Components(E, n)
    IN  IF Len(comps) <= 1 THEN E ELSE MergeLoop(E, pts, comps)

\* ---------------------------------------------------------- create_graph
\* The permutations of the nodes, as sequences.
Perms(n) ==
    {p \in [1 .. n -> NodesOf(n)] : \A a, b \in 1 .. n : a # b => p[a] # p[b]}

\* graph.py:231-232: np.argsort of the distances from i. The default sort kind
\* is not stable, so nodes at equal distance (node i itself and a node at the
\* same position included) come out in any order.
ArgSorts(pts, n, i) ==
    {p \in Perms(n) :
        \A m \in 1 .. (n - 1) : Dist2(pts, i, p[m]) <= Dist2(pts, i, p[m + 1])}

\* graph.py:229: rs.randint(2, max(3, int(sqrt(n)) + 1)), upper end excluded.
KChoices(n) == 2 .. (Max2(3, ISqrt(n) + 1) - 1)

\* graph.py:232-235: the edges node i adds, np.argsort(...)[1:k+1].
KnnEdgesOf(pts, n, i) ==
    {{Edge(i, p[m]) : m \in 2 .. Min2(k + 1, n)} :
        p \in ArgSorts(pts, n, i), k \in KChoices(n)}

\* graph.py:225-235: the candidate edge sets after nodes 0 .. i-1 have added theirs.
RECURSIVE KnnEdgeSets(_, _, _)
KnnEdgeSets(pts, n, i) ==
    IF i = 0 THEN {{}}
    ELSE {E \cup F : E \in KnnEdgeSets(pts, n, i - 1),
                     F \in KnnEdgesOf(pts, n, i - 1)}

\* graph.py:238-244: int(len * 0.35) edges, drawn without replacement, are removed.
Thinned(E) ==
    LET r == (Cardinality(E) * 35) \div 100
    IN  {E \ R : R \in {S \in SUBSET E : Cardinality(S) = r}}

\* graph.py:247-252: max(1, int(len * 0.10)) draws of a node pair; a pair of
\* two different nodes becomes an edge.
RECURSIVE WithRandomEdges(_, _, _)
WithRandomEdges(Es, n, draws) ==
    IF draws = 0 THEN Es
    ELSE WithRandomEdges(
            {IF i # j THEN E \cup {Edge(i, j)} ELSE E :
                E \in Es, i \in NodesOf(n), j \in NodesOf(n)},
            n, draws - 1)

RandomEdgeDraws(E) == Max2(1, (Cardinality(E) * 10) \div 100)

\* graph.py:215-255: the edge sets create_graph can end with.
EdgeSets(n, num_edges, pts) ==
    IF n < 2 \/ num_edges <= 0 THEN {{}}
    ELSE {ensure_connected(R, pts, n) :
            R \in UNION {WithRandomEdges({T}, n, RandomEdgeDraws(T)) :
                            T \in UNION {Thinned(K) : K \in KnnEdgeSets(pts, n, n)}}}

\* graph.py:188, 258-263: the adjacency matrix, 0 where there is no edge.
Adjacency(E, pts, n) ==
    [a \in NodesOf(n) |-> [b \in NodesOf(n) |->
        IF Edge(a, b) \in E THEN EdgeWeight(pts, a, b) ELSE 0]]

\* ---------------------------------------------------- precompute_matrices
\* graph.py:320-322: walk previous back from current to the node after source.
RECURSIVE TraceBack(_, _, _)
TraceBack(previous, source, node) ==
    IF previous[node] # source /\ previous[node] # NoNode
    THEN TraceBack(previous, source, previous[node])
    ELSE node

\* A plausible slip: the predecessor of current instead of the first step.
FirstStepPredecessor(previous, source, current) ==
    IF current = source THEN current ELSE previous[current]

\* graph.py:311-324: the entry path_matrix[source, current].
FirstStep(previous, source, current) ==
    IF current = source THEN current
    ELSE IF previous[current] = source THEN current
    ELSE TraceBack(previous, source, current)

\* A plausible slip: the distance of the node left is not added.
new_dist_edge_only(current_dist, edge_weight) == edge_weight

\* graph.py:333  new_dist = current_dist + edge_weight
new_dist(current_dist, edge_weight) == current_dist + edge_weight

\* heapq.heappop: the smallest (distance, node) tuple.
HeapMin(pq) ==
    CHOOSE p \in pq : \A q \in pq : p[1] < q[1] \/ (p[1] = q[1] /\ p[2] <= q[2])

\* graph.py:298-342: the loop of one source. st holds the heap pq (no tuple is
\* pushed twice), visited, distances, previous and the rows being filled.
RECURSIVE DijkstraLoop(_, _, _, _)
DijkstraLoop(adj, n, source, st) ==
    IF st.pq = {} THEN st
    ELSE
      LET top == HeapMin(st.pq)
          current_dist == top[1]
          current == top[2]
          pq1 == st.pq \ {top}
      IN  IF current \in st.visited
          THEN DijkstraLoop(adj, n, source, [st EXCEPT !.pq = pq1])
          ELSE
            LET visited == st.visited \cup {current}
                relaxed == {nb \in NodesOf(n) \ visited :
                              /\ adj[current][nb] > 0
                              /\ new_dist(current_dist, adj[current][nb]) < st.distances[nb]}
            IN  DijkstraLoop(adj, n, source,
                  [pq |-> pq1 \cup {<<new_dist(current_dist, adj[current][nb]), nb>> : nb \in relaxed},
                   visited |-> visited,
                   distances |-> [nb \in NodesOf(n) |->
                        IF nb \in relaxed THEN new_dist(current_dist, adj[current][nb])
                        ELSE st.distances[nb]],
                   previous |-> [nb \in NodesOf(n) |->
                        IF nb \in relaxed THEN current ELSE st.previous[nb]],
                   drow |-> [st.drow EXCEPT ![current] = current_dist],
                   prow |-> [st.prow EXCEPT
                        ![current] = FirstStep(st.previous, source, current)]])

\* graph.py:286-296: one single-source run.
Dijkstra(adj, n, source) ==
    DijkstraLoop(adj, n, source,
        [pq |-> {<<0, source>>},
         visited |-> {},
         distances |-> [nb \in NodesOf(n) |-> IF nb = source THEN 0 ELSE Inf],
         previous |-> [nb \in NodesOf(n) |-> NoNode],
         drow |-> [nb \in NodesOf(n) |-> Inf],
         prow |-> [nb \in NodesOf(n) |-> NoNode]])

\* graph.py:274-346
precompute_matrices(adj, n) ==
    LET run == [source \in NodesOf(n) |-> Dijkstra(adj, n, source)]
    IN  [distance_matrix |-> [s \in NodesOf(n) |-> run[s].drow],
         path_matrix |-> [s \in NodesOf(n) |-> run[s].prow]]

\* ------------------------------------------------------------------ state
VARIABLES
    \* Graph.__init__ (graph.py:159-176)
    num_nodes, num_edges, num_drivers,
    node_positions,     \* node -> <<x, y>> in tenths
    edges,              \* adjacency matrix, edges[a][b], 0: no edge
    distance_matrix,    \* distance_matrix[s][t], Inf: unreachable
    path_matrix,        \* path_matrix[s][t], NoNode: unreachable
    timestep,
    orders,             \* list of Order records, in creation order
    drivers,            \* list of Driver records, drivers[driver_id + 1]
    amount_of_orders,   \* node -> counter
    drivers_orders,     \* list of counters, indexed by Driver.id
    \* class attributes Order.current_id, Driver.current_id (graph.py:13, 546)
    Order_current_id, Driver_current_id,
    \* where Graph.__init__ stands: "new" before the call, "ready" after it
    phase,
    \* what the assign-order request just served returned (routes.py:409-514);
    \* NoResponse after any other operation
    response,
    \* whether the last Graph.time_step ended by raising
    raised,
    \* per order, the ticks at which it was attached, picked up and delivered
    \* and the node its driver stood on when it was attached (history only)
    log,
    \* where each thread of the server stands (SpecConc), and the ids of the
    \* assign-order request being served
    pc, request,
    \* Graph.seed (graph.py:163) and Graph.nodes, the order-generation rate of
    \* each node in thousandths (graph.py:213)
    seed, nodes,
    \* websocket_handler.simulation_running (websocket_handler.py:12)
    simulation_running,
    \* the render data a request for the state is putting together, or has
    \* returned (graph.py:369-501)
    snapshot

graphVars == <<num_nodes, num_edges, num_drivers, node_positions, edges,
               distance_matrix, path_matrix>>
worldVars == <<timestep, orders, drivers, amount_of_orders, drivers_orders>>
idVars == <<Order_current_id, Driver_current_id>>
obsVars == <<response, raised, log>>
threadVars == <<pc, request>>
rateVars == <<seed, nodes>>
serverVars == <<simulation_running, snapshot>>
vars == <<graphVars, worldVars, idVars, phase, obsVars, threadVars, rateVars,
          serverVars>>

\* Driver.order = None (graph.py:553); an order is referred to by its place in orders.
NoOrder == 0
\* No assign-order request has been answered yet.
NoResponse == [code |-> 0, message |-> "none", order_id |-> -1, driver_id |-> -1]
\* The threads: the simulation loop (websocket_handler.py:70-85), the loop
\* thread a later call of start_simulation_loop creates
\* (websocket_handler.py:88-89), and the threads serving a train request, an
\* assign-order request and a request for the state.
Threads == {"loop", "loop2", "train", "assign", "render"}
\* No thread is inside Graph.time_step or Graph.do_action, and the one loop
\* thread is the one main.py:49 starts.
Idle == [t \in Threads |-> IF t = "loop2" THEN "unstarted" ELSE "idle"]
NoRequest == [order_id |-> -1, driver_id |-> -1,
              num_nodes |-> -1, num_edges |-> -1, num_drivers |-> -1]
\* seed = None (graph.py:148), the default.
NoSeed == -1
\* The rate random.uniform(0.002, 0.1) of graph.py:180 gives a node, in
\* thousandths: the two ends of the range stand for the values in between.
Rates == {2, 100}
\* No request for the state has been served.
NoSnapshot == [timestep |-> -1, drivers |-> <<>>, tasks |-> <<>>]

Nodes == NodesOf(num_nodes)

\* graph.py:548-555  Driver(i, i % num_nodes, graph), with id = Driver.current_id
\* A plausible slip: every driver starts at node 0.
NewDrivers_at_first(n, nd, first_id) ==
    [i \in 1 .. nd |->
        [driver_id |-> i - 1, current_node |-> 0, delay |-> 0,
         order |-> NoOrder, id |-> first_id + i - 1]]

NewDrivers(n, nd, first_id) ==
    [i \in 1 .. nd |->
        [driver_id |-> i - 1, current_node |-> (i - 1) % n, delay |-> 0,
         order |-> NoOrder, id |-> first_id + i - 1]]

\* ------------------------------------------------- construction, SpecGraph
\* Edge-count targets a graph is constructed with (7 is the default, graph.py:147).
EdgeTargets == {0, 7}
\* Driver counts a graph is constructed with in SpecGraph.
GraphDriverCounts == {0, 2}
\* Rates the nodes of a graph get in SpecGraph.
GraphRates == {2}

\* Before Graph.__init__ runs: the arguments of the call, and the positions
\* the random state will yield (graph.py:196-210), are fixed.
InitGraph ==
    /\ num_nodes \in 1 .. MaxNodes
    /\ num_edges \in EdgeTargets
    /\ num_drivers \in GraphDriverCounts
    /\ node_positions \in [NodesOf(num_nodes) -> Points]
    /\ edges = <<>>
    /\ distance_matrix = <<>>
    /\ path_matrix = <<>>
    /\ timestep = 0
    /\ orders = <<>>
    /\ drivers = <<>>
    /\ amount_of_orders = <<>>
    /\ drivers_orders = <<>>
    /\ Order_current_id = 0
    /\ Driver_current_id = 0
    /\ phase = "new"
    /\ response = NoResponse
    /\ raised = FALSE
    /\ log = <<>>
    /\ pc = Idle
    /\ request = NoRequest
    /\ seed = NoSeed
    /\ nodes = <<>>
    /\ simulation_running = FALSE
    /\ snapshot = NoSnapshot

\* graph.py:147-176  Graph.__init__(nn, ne, nd): create_graph() samples the
\* positions pts, builds and repairs the edge set E, writes the weights and
\* places the drivers (their ids start at first_id, the value of
\* Driver.current_id); precompute_matrices() fills the two matrices; the two
\* counter lists are created last.
Graph(nn, ne, nd, pts, E, first_id) ==
    LET adj == Adjacency(E, pts, nn)
        m == precompute_matrices(adj, nn)
    IN  [num_nodes |-> nn, num_edges |-> ne, num_drivers |-> nd,
         node_positions |-> pts, edges |-> adj,
         distance_matrix |-> m.distance_matrix, path_matrix |-> m.path_matrix,
         timestep |-> 0, orders |-> <<>>,
         drivers |-> NewDrivers(nn, nd, first_id),
         amount_of_orders |-> [i \in NodesOf(nn) |-> 0],
         drivers_orders |-> [i \in 1 .. nd |-> 0]]

\* The fields of the Graph object g, as the next state.
Graph_init(g) ==
    /\ num_nodes' = g.num_nodes
    /\ num_edges' = g.num_edges
    /\ num_drivers' = g.num_drivers
    /\ node_positions' = g.node_positions
    /\ edges' = g.edges
    /\ distance_matrix' = g.distance_matrix
    /\ path_matrix' = g.path_matrix
    /\ timestep' = g.timestep
    /\ orders' = g.orders
    /\ drivers' = g.drivers
    /\ amount_of_orders' = g.amount_of_orders
    /\ drivers_orders' = g.drivers_orders

NewGraph ==
    /\ phase = "new"
    /\ \E E \in EdgeSets(num_nodes, num_edges, node_positions) :
         Graph_init(Graph(num_nodes, num_edges, num_drivers, node_positions, E,
                          Driver_current_id))
    /\ Driver_current_id' = Driver_current_id + num_drivers
    /\ nodes' \in [NodesOf(num_nodes) -> GraphRates]
    /\ phase' = "ready"
    /\ UNCHANGED <<Order_current_id, obsVars, threadVars, seed, serverVars>>

NextGraph == NewGraph

SpecGraph == InitGraph /\ [][NextGraph]_vars

\* ----------------------------------------------------------- connectivity
\* The nodes reachable from s through edges of positive weight.
RECURSIVE ReachableIn(_, _, _)
ReachableIn(adj, n, S) ==
    LET T == S \cup {j \in NodesOf(n) : \E i \in S : adj[i][j] > 0}
    IN  IF T = S THEN S ELSE ReachableIn(adj, n, T)

Connected(adj, n) == \A s \in NodesOf(n) : ReachableIn(adj, n, {s}) = NodesOf(n)

\* C1: after construction with nodeCount >= 1, any edgeCountTarget >= 0 (0
\* included) and any seed, every node reaches every other node through edges
\* of positive weight.
C1_ConnectedAfterConstruction ==
    phase = "ready" => Connected(edges, num_nodes)

\* Sum of the edge weights met by following path_matrix from i to j, in at
\* most fuel steps; Inf when j is not reached.
RECURSIVE FollowWeight(_, _, _, _, _)
FollowWeight(adj, pm, i, j, fuel) ==
    IF i = j THEN 0
    ELSE IF fuel = 0 \/ pm[i][j] = NoNode \/ adj[i][pm[i][j]] = 0 THEN Inf
    ELSE LET rest == FollowWeight(adj, pm, pm[i][j], j, fuel - 1)
         IN  IF rest = Inf THEN Inf ELSE adj[i][pm[i][j]] + rest

\* C2: after precompute_matrices, distance[i][i] = 0, and for every pair (i, j)
\* joined by a path, following path_matrix from i reaches j in at most
\* num_nodes - 1 steps over edges whose weights sum to distance[i][j].
C2_NextHopRoundTrip ==
    phase = "ready" =>
        \A i \in Nodes :
            /\ distance_matrix[i][i] = 0
            /\ \A j \in ReachableIn(edges, num_nodes, {i}) :
                 /\ distance_matrix[i][j] # Inf
                 /\ FollowWeight(edges, path_matrix, i, j, num_nodes - 1)
                        = distance_matrix[i][j]

\* A constructed graph on which some next-hop path has two hops and a weight above 2.
C2_Witness ==
    /\ phase = "ready"
    /\ \E i, j \in Nodes :
         /\ j \in ReachableIn(edges, num_nodes, {i})
         /\ path_matrix[i][j] \notin {i, j, NoNode}
         /\ distance_matrix[i][j] > 2

\* ------------------------------------------------------- Driver.time_step
\* Largest tick counter reached.
MaxTick == 4
\* Largest number of orders a world accumulates.
MaxOrders == 4
\* graph.py:361  a node generates no order once its counter has reached 3.
MaxPending == 3
\* The log entry of an order nothing has happened to yet.
NoLog == [assigned |-> NoNode, node |-> NoNode, picked |-> NoNode, delivered |-> NoNode]

\* The result of a driver's step: the driver, the order list, the
\* drivers_orders list, and whether the step raised.
StepResult(drv, ords, dro, exc) ==
    [driver |-> drv, orders |-> ords, drivers_orders |-> dro, raised |-> exc]

\* A plausible slip: the tick of the move is not taken off the travel time.
Hop_full_time(drv, next_node) ==
    [drv EXCEPT !.delay = edges[drv.current_node][next_node],
                !.current_node = next_node]

\* graph.py:569-571, 579-581: the hop to next_node.
Hop(drv, next_node) ==
    [drv EXCEPT !.delay = edges[drv.current_node][next_node] - 1,
                !.current_node = next_node]

\* graph.py:574  self.graph.drivers_orders[self.id] -= 1; a list index past the
\* end raises IndexError.
DecrementDriversOrders(dro, id) ==
    IF id < Len(dro) THEN [dro EXCEPT ![id + 1] = @ - 1] ELSE dro

\* A plausible slip: the delay of a driver under way is not counted down.
Waiting_stuck(drv) == drv

\* A plausible slip: a driver under way is put at the end of its hop at once.
Waiting_arrives(drv) == [drv EXCEPT !.delay = 0]

\* graph.py:562-563  if self.delay > 0: self.delay -= 1
Waiting(drv) == [drv EXCEPT !.delay = @ - 1]

\* A plausible slip: the delivery overwrites the order's creation tick.
Delivered_restamped(ords, o) ==
    [ords EXCEPT ![o].is_delivered = TRUE, ![o].time_created = 0]

\* graph.py:573  self.order.is_delivered = True
Delivered(ords, o) == [ords EXCEPT ![o].is_delivered = TRUE]

\* A plausible slip: the dropoff branch does not ask for is_picked_up.
Driver_time_step_no_pickup(drv, ords, dro) ==
    IF drv.delay > 0
    THEN StepResult([drv EXCEPT !.delay = @ - 1], ords, dro, FALSE)
    ELSE IF drv.order # NoOrder /\ ~ords[drv.order].is_delivered
    THEN LET next_node == path_matrix[drv.current_node][ords[drv.order].dropoff_node]
         IN  IF next_node = NoNode THEN StepResult(drv, ords, dro, FALSE)
             ELSE IF next_node = ords[drv.order].dropoff_node
             THEN StepResult(Hop(drv, next_node),
                             [ords EXCEPT ![drv.order].is_delivered = TRUE],
                             DecrementDriversOrders(dro, drv.id),
                             drv.id >= Len(dro))
             ELSE StepResult(Hop(drv, next_node), ords, dro, FALSE)
    ELSE StepResult(drv, ords, dro, FALSE)

\* A plausible slip: a next hop of -1 is not tolerated, the step raises.
Driver_time_step_abort(drv, ords, dro) ==
    IF drv.delay > 0
    THEN StepResult(Waiting(drv), ords, dro, FALSE)
    ELSE IF /\ drv.order # NoOrder
            /\ ords[drv.order].is_picked_up
            /\ ~ords[drv.order].is_delivered
    THEN LET next_node == path_matrix[drv.current_node][ords[drv.order].dropoff_node]
         IN  IF next_node = NoNode THEN StepResult(drv, ords, dro, TRUE)
             ELSE IF next_node = ords[drv.order].dropoff_node
             THEN StepResult(Hop(drv, next_node),
                             [ords EXCEPT ![drv.order].is_delivered = TRUE],
                             DecrementDriversOrders(dro, drv.id),
                             drv.id >= Len(dro))
             ELSE StepResult(Hop(drv, next_node), ords, dro, FALSE)
    ELSE IF drv.order # NoOrder /\ ~ords[drv.order].is_picked_up
    THEN LET next_node == path_matrix[drv.current_node][ords[drv.order].pickup_node]
         IN  IF next_node = NoNode THEN StepResult(drv, ords, dro, TRUE)
             ELSE IF next_node = ords[drv.order].pickup_node
             THEN StepResult(Hop(drv, next_node),
                             [ords EXCEPT ![drv.order].is_picked_up = TRUE],
                             dro, FALSE)
             ELSE StepResult(Hop(drv, next_node), ords, dro, FALSE)
    ELSE StepResult(drv, ords, dro, FALSE)

\* A plausible slip: the delay is counted down whether it is above 0 or not,
\* before the driver moves.
Driver_time_step_counts_down(drv, ords, dro) ==
    IF drv.delay > 0
    THEN StepResult(Waiting(drv), ords, dro, FALSE)
    ELSE IF /\ drv.order # NoOrder
            /\ ords[drv.order].is_picked_up
            /\ ~ords[drv.order].is_delivered
    THEN LET next_node == path_matrix[drv.current_node][ords[drv.order].dropoff_node]
         IN  IF next_node = NoNode THEN StepResult(drv, ords, dro, FALSE)
             ELSE IF next_node = ords[drv.order].dropoff_node
             THEN StepResult(Hop(drv, next_node),
                             [ords EXCEPT ![drv.order].is_delivered = TRUE],
                             DecrementDriversOrders(dro, drv.id),
                             drv.id >= Len(dro))
             ELSE StepResult(Hop(drv, next_node), ords, dro, FALSE)
    ELSE IF drv.order # NoOrder /\ ~ords[drv.order].is_picked_up
    THEN LET next_node == path_matrix[drv.current_node][ords[drv.order].pickup_node]
         IN  IF next_node = NoNode THEN StepResult(drv, ords, dro, FALSE)
             ELSE IF next_node = ords[drv.order].pickup_node
             THEN StepResult(Hop(drv, next_node),
                             [ords EXCEPT ![drv.order].is_picked_up = TRUE],
                             dro, FALSE)
             ELSE StepResult(Hop(drv, next_node), ords, dro, FALSE)
    ELSE StepResult(Waiting(drv), ords, dro, FALSE)

\* graph.py:557-583  Driver.time_step
Driver_time_step(drv, ords, dro) ==
    IF drv.delay > 0
    THEN StepResult(Waiting(drv), ords, dro, FALSE)
    ELSE IF /\ drv.order # NoOrder
            /\ ords[drv.order].is_picked_up
            /\ ~ords[drv.order].is_delivered
    THEN \* move towards the dropoff node
         LET next_node == path_matrix[drv.current_node][ords[drv.order].dropoff_node]
         IN  IF next_node = NoNode THEN StepResult(drv, ords, dro, FALSE)
             ELSE IF next_node = ords[drv.order].dropoff_node
             THEN StepResult(Hop(drv, next_node),
                             Delivered(ords, drv.order),
                             DecrementDriversOrders(dro, drv.id),
                             drv.id >= Len(dro))
             ELSE StepResult(Hop(drv, next_node), ords, dro, FALSE)
    ELSE IF drv.order # NoOrder /\ ~ords[drv.order].is_picked_up
    THEN \* move towards the pickup node
         LET next_node == path_matrix[drv.current_node][ords[drv.order].pickup_node]
         IN  IF next_node = NoNode THEN StepResult(drv, ords, dro, FALSE)
             ELSE IF next_node = ords[drv.order].pickup_node
             THEN StepResult(Hop(drv, next_node),
                             [ords EXCEPT ![drv.order].is_picked_up = TRUE],
                             dro, FALSE)
             ELSE StepResult(Hop(drv, next_node), ords, dro, FALSE)
    ELSE StepResult(drv, ords, dro, FALSE)

\* graph.py:366-367: the drivers step in list order; an exception ends the loop.
RECURSIVE RunDrivers(_, _)
RunDrivers(i, st) ==
    IF i > Len(st.drivers) \/ st.raised THEN st
    ELSE LET r == Driver_time_step(st.drivers[i], st.orders, st.drivers_orders)
         IN  RunDrivers(i + 1,
                [drivers |-> [st.drivers EXCEPT ![i] = r.driver],
                 orders |-> r.orders,
                 drivers_orders |-> r.drivers_orders,
                 raised |-> r.raised])

\* -------------------------------------------------------- Graph.time_step
\* graph.py:15-22  Order(pickup, dropoff, time_created), with the next order id.
Order(id, pickup, dropoff, time_created) ==
    [order_id |-> id, pickup_node |-> pickup, dropoff_node |-> dropoff,
     time_created |-> time_created, is_picked_up |-> FALSE, is_delivered |-> FALSE]

\* The outcomes of the draws of one tick (graph.py:361-362): plan[i] is the
\* dropoff node drawn for node i, or NoNode when random.random() was not below
\* the node's rate. Every rate lies in (0.002, 0.1), so both happen at every node.
\* In a one-node world plan[0] = 0 stands for a successful draw: there is no
\* dropoff candidate to choose from.
Plans == [Nodes -> Nodes \cup {NoNode}]

\* Whether node i generates an order under the plan: the draw succeeded and the
\* node's counter is below 3. Reading `limit` as 3 is graph.py:361.
Generates(plan, i, limit) == plan[i] # NoNode /\ amount_of_orders[i] < limit

\* A plausible slip: the counter is not looked at.
GeneratesUnchecked(plan, i) == plan[i] # NoNode

\* graph.py:361  random.random() < node and self.amount_of_orders[i] < 3
GeneratesOrder(plan, i) == Generates(plan, i, MaxPending)

\* A plausible slip: the pickup node is not left out of the candidates.
DropoffChoices_all(i) == Nodes

\* graph.py:362  [j for j in range(self.num_nodes) if j != i]
DropoffChoices(i) == Nodes \ {i}

\* graph.py:362  random.choice: the dropoff drawn for a node is one of its
\* candidates (there is none in a one-node world, where the call raises).
PlanDrawn(plan) ==
    \A i \in Nodes :
        plan[i] = NoNode \/ DropoffChoices(i) = {} \/ plan[i] \in DropoffChoices(i)

\* graph.py:360-363: the orders appended by the node loop, in node order.
RECURSIVE NewOrders(_, _, _, _)
NewOrders(plan, i, next_id, ts) ==
    IF i >= num_nodes THEN <<>>
    ELSE IF GeneratesOrder(plan, i)
    THEN <<Order(next_id, i, plan[i], ts)>> \o NewOrders(plan, i + 1, next_id + 1, ts)
    ELSE NewOrders(plan, i + 1, next_id, ts)

\* The log after a tick: new orders get an empty entry, and the tick at which
\* an order's flag was set is noted.
LogAfter(old, new, ts) ==
    [k \in 1 .. Len(new) |->
        IF k > Len(old) THEN NoLog
        ELSE [log[k] EXCEPT
                !.picked = IF new[k].is_picked_up /\ ~old[k].is_picked_up THEN ts ELSE @,
                !.delivered = IF new[k].is_delivered /\ ~old[k].is_delivered THEN ts ELSE @]]

\* graph.py:359-367  Graph.time_step after `self.timestep += 1`, for one
\* outcome of the draws: the node loop stamps the new orders with the tick
\* counter ts it reads, then the drivers step. With one node,
\* random.choice([]) raises IndexError before anything is appended, and the
\* drivers are not stepped. cap bounds the length of the order list; ds is the
\* driver list the tick finds.
Graph_time_step_loops_on(ds, plan, cap, ts) ==
    LET choice_fails == \E i \in Nodes : GeneratesOrder(plan, i) /\ num_nodes = 1
        created == NewOrders(plan, 0, Order_current_id, ts)
    IN  /\ PlanDrawn(plan)
        /\ Len(orders) + Len(created) <= cap
        /\ IF choice_fails
           THEN /\ raised' = TRUE
                /\ drivers' = ds
                /\ UNCHANGED <<orders, amount_of_orders, drivers_orders,
                               Order_current_id, log>>
           ELSE LET st == RunDrivers(1, [drivers |-> ds,
                                         orders |-> orders \o created,
                                         drivers_orders |-> drivers_orders,
                                         raised |-> FALSE])
                IN  /\ orders' = st.orders
                    /\ drivers' = st.drivers
                    /\ drivers_orders' = st.drivers_orders
                    /\ raised' = st.raised
                    /\ amount_of_orders' = [i \in Nodes |->
                          IF GeneratesOrder(plan, i) THEN amount_of_orders[i] + 1
                          ELSE amount_of_orders[i]]
                    /\ Order_current_id' = Order_current_id + Len(created)
                    /\ log' = LogAfter(orders, st.orders, ts)

\* graph.py:359-367 on the driver list of the world.
Graph_time_step_loops(plan, cap, ts) == Graph_time_step_loops_on(drivers, plan, cap, ts)

\* A plausible slip: the loops run with the counter of before the tick, as if
\* the counter were incremented last.
Graph_time_step_stale(plan, cap) ==
    /\ timestep' = timestep + 1
    /\ Graph_time_step_loops(plan, cap, timestep)
    /\ UNCHANGED <<graphVars, rateVars>>

\* A plausible slip: the nodes' rates are drawn again in every tick.
Graph_time_step_redrawn(plan, cap) ==
    /\ timestep' = timestep + 1
    /\ Graph_time_step_loops(plan, cap, timestep + 1)
    /\ nodes' \in [Nodes -> Rates]
    /\ UNCHANGED <<graphVars, seed>>

\* graph.py:354-367  Graph.time_step: the tick counter first, then the loops;
\* neither they nor Driver.time_step write a field of the graph.
Graph_time_step(plan, cap) ==
    /\ timestep' = timestep + 1
    /\ Graph_time_step_loops(plan, cap, timestep + 1)
    /\ UNCHANGED <<graphVars, rateVars>>

\* ------------------------------------------------- assign-order, do_action
\* routes.py:452-457: the first order with the id, as its place in the list.
FindOrder(order_id) ==
    IF \E k \in 1 .. Len(orders) : orders[k].order_id = order_id
    THEN CHOOSE k \in 1 .. Len(orders) :
            /\ orders[k].order_id = order_id
            /\ \A j \in 1 .. (k - 1) : orders[j].order_id # order_id
    ELSE NoOrder

\* A plausible slip: an id no driver has falls back to the first driver.
FindDriver_default(driver_id) ==
    IF \E k \in 1 .. Len(drivers) : drivers[k].driver_id = driver_id
    THEN CHOOSE k \in 1 .. Len(drivers) : drivers[k].driver_id = driver_id
    ELSE IF Len(drivers) > 0 THEN 1 ELSE NoOrder

\* routes.py:472-477: the first driver with the driver_id, as its place in the list.
FindDriver(driver_id) ==
    IF \E k \in 1 .. Len(drivers) : drivers[k].driver_id = driver_id
    THEN CHOOSE k \in 1 .. Len(drivers) :
            /\ drivers[k].driver_id = driver_id
            /\ \A j \in 1 .. (k - 1) : drivers[j].driver_id # driver_id
    ELSE NoOrder

\* A plausible body for do_action: the order is handed to the driver, whatever
\* the driver holds.
Graph_do_action_reassign(ds, ords, order_id, driver_id) ==
    [k \in 1 .. Len(ds) |->
        IF ds[k].driver_id = driver_id /\ FindOrder(order_id) # NoOrder
        THEN [ds[k] EXCEPT !.order = FindOrder(order_id)]
        ELSE ds[k]]

\* graph.py:348-352  Graph.do_action: the body is a docstring; nothing is
\* decoded and nothing is assigned. The result is the driver list afterwards.
Graph_do_action(ds, ords, order_id, driver_id) == ds

Response(code, message, order_id, driver_id) ==
    [code |-> code, message |-> message, order_id |-> order_id, driver_id |-> driver_id]

\* routes.py:450-483  assign_order up to the call of apply_action: the answer
\* of a request that is turned away, NoResponse for one that goes on.
assign_lookup(order_id, driver_id) ==
    IF FindOrder(order_id) = NoOrder
    THEN Response(404, "order not found", order_id, driver_id)
    ELSE IF orders[FindOrder(order_id)].is_delivered
    THEN Response(400, "delivered order", order_id, driver_id)
    ELSE IF FindDriver(driver_id) = NoOrder
    THEN Response(404, "driver not found", order_id, driver_id)
    ELSE NoResponse

\* routes.py:485-505  assign_order from apply_action on: the action goes
\* through AppState.apply_action (appstate.py:35-44) to Graph.do_action, and
\* the route then looks at the driver's order.
assign_apply(order_id, driver_id) ==
    LET d == FindDriver(driver_id)
        after == Graph_do_action(drivers, orders, order_id, driver_id)
    IN  /\ drivers' = after
        /\ response' =
             IF after[d].order = NoOrder \/ orders[after[d].order].order_id # order_id
             THEN Response(400, "assignment failed", order_id, driver_id)
             ELSE Response(200, "assigned", order_id, driver_id)

\* routes.py:450-505  assign_order, from the parsed ids on.
assign_order(order_id, driver_id) ==
    IF assign_lookup(order_id, driver_id) # NoResponse
    THEN /\ response' = assign_lookup(order_id, driver_id)
         /\ UNCHANGED drivers
    ELSE assign_apply(order_id, driver_id)

\* Order ids and driver ids a request names: those of the world and one past them.
OrderIds == 0 .. Order_current_id
DriverIds == 0 .. num_drivers

\* routes.py:409-514  POST /api/simulation/assign-order, served in one piece.
AssignOrder ==
    /\ phase = "ready"
    /\ \E order_id \in OrderIds, driver_id \in DriverIds :
         assign_order(order_id, driver_id)
    /\ UNCHANGED <<graphVars, timestep, orders, amount_of_orders, drivers_orders,
                   idVars, phase, raised, log, threadVars, rateVars, serverVars>>

\* appstate.py:11-28  AppState.time_step, in one piece: no optimizer is set
\* (main.py:17), so the call is Graph.time_step.
Tick ==
    /\ phase = "ready"
    /\ timestep < MaxTick
    /\ \E plan \in Plans : Graph_time_step(plan, MaxOrders)
    /\ response' = NoResponse
    /\ UNCHANGED <<Driver_current_id, phase, threadVars, serverVars>>

\* ------------------------------------------------------------ worlds, Spec
\* Node layouts of the simulated worlds: a world of n nodes takes the first n
\* points of a layout. LineLayout gives unit weights on a line (and weight 2
\* between its ends), WeightedLayout the weights 3 (0-1), 2 (1-2) and 1 (0-2).
LineLayout == <<<<0, 0>>, <<1, 0>>, <<2, 0>>>>
WeightedLayout == <<<<0, 0>>, <<3, 0>>, <<1, 0>>>>

\* The Graph objects constructed with nn nodes at the layout's points, nd
\* drivers and Driver.current_id = first_id, for the default edge target 7.
Worlds(node_counts, driver_counts, layouts, first_ids) ==
    UNION {
        {Graph(nn, 7, nd, [i \in NodesOf(nn) |-> layout[i + 1]], E, first_id) :
            E \in EdgeSets(nn, 7, [i \in NodesOf(nn) |-> layout[i + 1]])} :
        nn \in node_counts, nd \in driver_counts,
        layout \in layouts, first_id \in first_ids}

\* The state after Graph.__init__ has returned g.
IsGraph(g) ==
    /\ num_nodes = g.num_nodes
    /\ num_edges = g.num_edges
    /\ num_drivers = g.num_drivers
    /\ node_positions = g.node_positions
    /\ edges = g.edges
    /\ distance_matrix = g.distance_matrix
    /\ path_matrix = g.path_matrix
    /\ timestep = g.timestep
    /\ orders = g.orders
    /\ drivers = g.drivers
    /\ amount_of_orders = g.amount_of_orders
    /\ drivers_orders = g.drivers_orders

\* Rates the nodes of a simulated world have.
WorldRates == {100}

\* A process in which the Graph g of ws has just been constructed (main.py:16,
\* without a seed) and the simulation loop started (main.py:49).
InitWorld(ws) ==
    /\ \E g \in ws :
         /\ IsGraph(g)
         /\ Driver_current_id =
              IF g.num_drivers = 0 THEN 0 ELSE g.drivers[g.num_drivers].id + 1
    /\ Order_current_id = 0
    /\ phase = "ready"
    /\ response = NoResponse
    /\ raised = FALSE
    /\ log = <<>>
    /\ pc = Idle
    /\ request = NoRequest
    /\ seed = NoSeed
    /\ nodes \in [Nodes -> WorldRates]
    /\ simulation_running = TRUE
    /\ snapshot = NoSnapshot

\* Worlds of one and two nodes, in a fresh process.
Init == InitWorld(Worlds({1, 2}, 1 .. MaxDrivers, {LineLayout, WeightedLayout}, {0}))

Next == Tick \/ AssignOrder

Spec == Init /\ [][Next]_vars

\* --------------------------------------- drivers with orders, SpecAttached
\* Largest tick counter reached in SpecAttached.
MaxLifeTick == 7
\* Largest number of orders generated in SpecAttached.
MaxHeld == 2
\* The ticks of SpecAttached in which orders are generated; in every other
\* tick each draw stays above the node's rate.
GenTicks == {0}

\* Section 4.5 of the specification, assign(orderId, driverId): the order
\* exists and is not Delivered, the driver exists and holds no order, and (the
\* driver holds its order exclusively, section 3) no other driver holds the
\* order; the order is attached and nothing else changes. Graph.do_action,
\* which is to do this, has no body, so that no driver of Spec ever holds an
\* order; SpecAttached adds the attachment to exercise Driver.time_step, the
\* snapshot and the route on drivers that hold orders.
Attach(o, d) ==
    /\ phase = "ready"
    /\ o \in 1 .. Len(orders)
    /\ d \in 1 .. Len(drivers)
    /\ ~orders[o].is_delivered
    /\ drivers[d].order = NoOrder
    /\ \A e \in 1 .. Len(drivers) : drivers[e].order # o
    /\ drivers' = [drivers EXCEPT ![d].order = o]
    /\ log' = [log EXCEPT ![o].assigned = timestep,
                          ![o].node = drivers[d].current_node]
    /\ response' = NoResponse
    /\ UNCHANGED <<graphVars, timestep, orders, amount_of_orders, drivers_orders,
                   idVars, phase, raised, threadVars, rateVars, serverVars>>

AttachOrder == \E o \in 1 .. MaxHeld + 1, d \in 1 .. MaxDrivers + 1 : Attach(o, d)

\* appstate.py:11-28  AppState.time_step, as Tick, with the generation of
\* orders bounded by GenTicks and MaxHeld.
TickAttached ==
    /\ phase = "ready"
    /\ timestep < MaxLifeTick
    /\ \E plan \in Plans :
         Graph_time_step(plan, IF timestep \in GenTicks THEN MaxHeld ELSE Len(orders))
    /\ response' = NoResponse
    /\ UNCHANGED <<Driver_current_id, phase, threadVars, serverVars>>

InitAttached ==
    InitWorld(Worlds({3}, {1}, {LineLayout, WeightedLayout}, {0}))

NextAttached == TickAttached \/ AttachOrder \/ AssignOrder

SpecAttached == InitAttached /\ [][NextAttached]_vars


\* ------------------------------------------------ Graph.get_render_data
\* None in the render data (graph.py:425-428).
NoValue == -1

\* graph.py:431-439: the node the driver is heading for.
TargetNode(drv, ords) ==
    IF drv.order = NoOrder THEN NoValue
    ELSE IF ords[drv.order].is_picked_up /\ ~ords[drv.order].is_delivered
    THEN ords[drv.order].dropoff_node
    ELSE IF ~ords[drv.order].is_picked_up
    THEN ords[drv.order].pickup_node
    ELSE NoValue

\* graph.py:442-446: the next node reported for a moving driver.
NextNode(drv, ords) ==
    IF /\ drv.order # NoOrder
       /\ drv.delay > 0
       /\ TargetNode(drv, ords) # NoValue
       /\ path_matrix[drv.current_node][TargetNode(drv, ords)] # NoNode
       /\ path_matrix[drv.current_node][TargetNode(drv, ords)] < num_nodes
    THEN path_matrix[drv.current_node][TargetNode(drv, ords)]
    ELSE NoValue

\* graph.py:448: the weight of the edge from the driver's node to that node.
ReportedWeight(drv, ords) ==
    IF NextNode(drv, ords) = NoValue THEN NoValue
    ELSE edges[drv.current_node][NextNode(drv, ords)]

\* graph.py:449-453: (edge_weight - delay) / edge_weight clamped to [0, 1], as
\* the pair <<numerator, denominator>>.
Progress(drv, ords) ==
    IF ReportedWeight(drv, ords) > 0
    THEN <<Max2(0, Min2(ReportedWeight(drv, ords), ReportedWeight(drv, ords) - drv.delay)),
           ReportedWeight(drv, ords)>>
    ELSE <<NoValue, NoValue>>

\* graph.py:416-464: the entry of a driver.
RenderDriver(drv, ords) ==
    [id |-> drv.driver_id,
     location |-> drv.current_node,
     status |-> IF drv.delay > 0 THEN "moving" ELSE "idle",
     delay |-> drv.delay,
     next_node |-> NextNode(drv, ords),
     target_node |-> TargetNode(drv, ords),
     edge_weight |-> ReportedWeight(drv, ords),
     progress |-> Progress(drv, ords)]

\* graph.py:467-493: the entry of an order.
RenderTask(o) ==
    [id |-> o.order_id,
     status |-> IF o.is_delivered THEN "delivered"
                ELSE IF o.is_picked_up THEN "in_transit" ELSE "pending",
     location |-> IF o.is_delivered THEN o.dropoff_node ELSE o.pickup_node,
     pickup_node |-> o.pickup_node,
     dropoff_node |-> o.dropoff_node,
     time_created |-> o.time_created]

RenderDrivers(ds, ords) == [k \in 1 .. Len(ds) |-> RenderDriver(ds[k], ords)]
RenderTasks(ords) == [k \in 1 .. Len(ords) |-> RenderTask(ords[k])]

\* graph.py:369-501  get_render_data: the drivers, the tasks and the tick
\* counter of the render data (its nodes and edges repeat the graph).
get_render_data(ds, ords, ts) ==
    [timestep |-> ts, drivers |-> RenderDrivers(ds, ords), tasks |-> RenderTasks(ords)]

\* ------------------------------------------- threads of the server, SpecConc
\* Largest tick counter reached in SpecConc.
MaxConcTick == 3
\* Largest number of orders generated in SpecConc.
MaxConcOrders == 2

\* Thread t calls Graph.time_step and executes graph.py:356, self.timestep += 1.
\* Nothing is acquired before the call: websocket_handler.py:72-75 for the
\* loop, routes.py:258-261 (or DeliveryEnv.step, rl_environment.py:193) for the
\* train request.
EnterTimeStep(t) ==
    /\ phase = "ready"
    /\ pc[t] = "idle"
    /\ timestep < MaxConcTick
    /\ timestep' = timestep + 1
    /\ pc' = [pc EXCEPT ![t] = "time_step"]
    /\ response' = NoResponse
    /\ UNCHANGED <<graphVars, orders, drivers, amount_of_orders, drivers_orders,
                   idVars, phase, raised, log, request, rateVars, serverVars>>

\* Thread t executes the loops of Graph.time_step (graph.py:359-367) and returns.
LeaveTimeStep(t) ==
    /\ pc[t] = "time_step"
    /\ \E plan \in Plans : Graph_time_step_loops(plan, MaxConcOrders, timestep)
    /\ pc' = [pc EXCEPT ![t] = "idle"]
    /\ UNCHANGED <<graphVars, timestep, Driver_current_id, phase, response, request,
                   rateVars, serverVars>>

LoopEnter == EnterTimeStep("loop")
LoopLeave == LeaveTimeStep("loop")
TrainEnter == EnterTimeStep("train")
TrainLeave == LeaveTimeStep("train")

\* routes.py:450-493: the request is turned away, or the thread calls
\* apply_action and is inside Graph.do_action.
AssignCall ==
    /\ phase = "ready"
    /\ pc["assign"] = "idle"
    /\ \E order_id \in OrderIds, driver_id \in DriverIds :
         IF assign_lookup(order_id, driver_id) # NoResponse
         THEN /\ response' = assign_lookup(order_id, driver_id)
              /\ UNCHANGED <<pc, request>>
         ELSE /\ response' = NoResponse
              /\ pc' = [pc EXCEPT !["assign"] = "do_action"]
              /\ request' = [NoRequest EXCEPT !.order_id = order_id, !.driver_id = driver_id]
    /\ UNCHANGED <<graphVars, worldVars, idVars, phase, raised, log, rateVars,
                   serverVars>>

\* routes.py:493-505: do_action returns and the route answers.
AssignReturn ==
    /\ pc["assign"] = "do_action"
    /\ assign_apply(request.order_id, request.driver_id)
    /\ pc' = [pc EXCEPT !["assign"] = "idle"]
    /\ request' = NoRequest
    /\ UNCHANGED <<graphVars, timestep, orders, amount_of_orders, drivers_orders,
                   idVars, phase, raised, log, rateVars, serverVars>>

\* routes.py:37-59 (and send_state_update, websocket_handler.py:23-48, from a
\* connect or request_state handler): get_render_data walks the drivers and
\* the orders (graph.py:416-493) ...
RenderRead ==
    /\ phase = "ready"
    /\ pc["render"] = "idle"
    /\ snapshot' = get_render_data(drivers, orders, NoValue)
    /\ pc' = [pc EXCEPT !["render"] = "get_render_data"]
    /\ UNCHANGED <<graphVars, worldVars, idVars, phase, obsVars, request, rateVars,
                   simulation_running>>

\* ... and reads the tick counter last, in the dictionary it returns
\* (graph.py:495-501). Nothing is acquired around the two.
RenderReturn ==
    /\ pc["render"] = "get_render_data"
    /\ snapshot' = [snapshot EXCEPT !.timestep = timestep]
    /\ pc' = [pc EXCEPT !["render"] = "idle"]
    /\ UNCHANGED <<graphVars, worldVars, idVars, phase, obsVars, request, rateVars,
                   simulation_running>>

\* The two-node world with one driver; the loop was started by main.py:49.
InitConc == InitWorld(Worlds({2}, {1}, {LineLayout}, {0}))

NextConc ==
    \/ LoopEnter \/ LoopLeave
    \/ TrainEnter \/ TrainLeave
    \/ AssignCall \/ AssignReturn
    \/ RenderRead \/ RenderReturn

SpecConc == InitConc /\ [][NextConc]_vars

\* ------------------------------------------- worlds without edges, SpecStranded
\* The graphs Graph(nn, 0, nd) constructs: create_graph returns before it adds
\* an edge (graph.py:215-222), so that no node is reached from another.
StrandedWorlds ==
    {Graph(nn, 0, 2, [i \in NodesOf(nn) |-> LineLayout[i + 1]], {}, 0) :
        nn \in {2, 3}}

InitStranded == InitWorld(StrandedWorlds)

NextStranded == TickAttached \/ AttachOrder

SpecStranded == InitStranded /\ [][NextStranded]_vars

\* ------------------------------------------------------ compute_driver_path
\* graph.py:509-538  Graph.compute_driver_path: driver_id is a place in the
\* list of drivers; the result is the list of one node when the driver is on
\* the target, and the empty list otherwise.
compute_driver_path(driver_id, target_node) ==
    IF driver_id < 0 \/ driver_id >= Len(drivers) THEN <<>>
    ELSE LET source_node == drivers[driver_id + 1].current_node
         IN  IF source_node = target_node THEN <<source_node>> ELSE <<>>

\* --------------------------------------------- pausing the loop, SpecPause
\* websocket_handler.py:71-75  the loop thread, at `while simulation_running`:
\* it calls AppState.time_step, whose Graph.time_step starts with
\* self.timestep += 1, or leaves the loop and ends.
LoopWake ==
    /\ pc["loop"] = "idle"
    /\ IF simulation_running
       THEN EnterTimeStep("loop")
       ELSE /\ pc' = [pc EXCEPT !["loop"] = "exited"]
            /\ UNCHANGED <<graphVars, worldVars, idVars, phase, obsVars, request,
                           rateVars, serverVars>>

\* A plausible slip: the node loop looks at simulation_running and gives the
\* tick up when the loop has been stopped.
LoopNodes_abandon ==
    /\ pc["loop"] = "time_step"
    /\ IF simulation_running
       THEN pc' = [pc EXCEPT !["loop"] = "drivers"]
       ELSE pc' = [pc EXCEPT !["loop"] = "exited"]
    /\ UNCHANGED <<graphVars, worldVars, idVars, phase, obsVars, request, rateVars,
                   serverVars>>

\* graph.py:359-363  the node loop of Graph.time_step, in loop thread t.
LoopNodesOf(t) ==
    /\ pc[t] = "time_step"
    /\ \E plan \in Plans :
         LET created == NewOrders(plan, 0, Order_current_id, timestep)
         IN  /\ PlanDrawn(plan)
             /\ Len(orders) + Len(created) <= MaxConcOrders
             /\ orders' = orders \o created
             /\ amount_of_orders' = [i \in Nodes |->
                   IF GeneratesOrder(plan, i) THEN amount_of_orders[i] + 1
                   ELSE amount_of_orders[i]]
             /\ Order_current_id' = Order_current_id + Len(created)
             /\ log' = LogAfter(orders, orders \o created, timestep)
    /\ pc' = [pc EXCEPT ![t] = "drivers"]
    /\ UNCHANGED <<graphVars, timestep, drivers, drivers_orders, Driver_current_id,
                   phase, response, raised, request, rateVars, serverVars>>

\* The node loop in the thread main.py:49 starts.
LoopNodes == LoopNodesOf("loop")

\* graph.py:366-367  the driver loop of Graph.time_step, in loop thread t;
\* the thread then sends the state and sleeps (websocket_handler.py:77-85).
LoopDriversOf(t) ==
    /\ pc[t] = "drivers"
    /\ LET st == RunDrivers(1, [drivers |-> drivers, orders |-> orders,
                                drivers_orders |-> drivers_orders, raised |-> FALSE])
       IN  /\ orders' = st.orders
           /\ drivers' = st.drivers
           /\ drivers_orders' = st.drivers_orders
           /\ raised' = st.raised
           /\ log' = LogAfter(orders, st.orders, timestep)
    /\ pc' = [pc EXCEPT ![t] = "idle"]
    /\ UNCHANGED <<graphVars, timestep, amount_of_orders, idVars, phase, response,
                   request, rateVars, serverVars>>

\* The driver loop in the thread main.py:49 starts.
LoopDrivers == LoopDriversOf("loop")

\* routes.py:293-318  pause_simulation -> stop_simulation_loop
\* (websocket_handler.py:91-94): the flag is cleared, nothing else.
PauseSimulation ==
    /\ phase = "ready"
    /\ simulation_running' = FALSE
    /\ UNCHANGED <<graphVars, worldVars, idVars, phase, obsVars, threadVars, rateVars,
                   snapshot>>

\* The two-node world with one driver; the loop was started by main.py:49.
InitPause == InitWorld(Worlds({2}, {1}, {LineLayout}, {0}))

NextPause == LoopWake \/ LoopNodes \/ LoopDrivers \/ PauseSimulation

SpecPause == InitPause /\ [][NextPause]_vars

\* ------------------------------------------ new worlds in a process, SpecCreate
MaxCreateTick == 1
MaxCreateOrders == 1
\* The drivers a process constructs at most.
MaxCreateIds == 3

\* Hyperparameters of the requests and constructor calls.
CreateNodeCounts == {2, 3}
CreateEdgeTargets == {0, 1}
CreateDriverCounts == {1}
CreateLayouts == {LineLayout}
Seeds == {NoSeed, 1}

\* graph.py:147-176  Graph(num_nodes=nn, num_edges=ne, num_drivers=nd, seed=s)
\* constructed in a process that already holds a world. The positions and the
\* edges come from np.random.RandomState(s) (graph.py:195-238): a seed that is
\* not None gives the draws it gave before. The rates come from node_f, that
\* is from the random module (graph.py:178-180, 213), whatever s is. Drivers
\* take their id from Driver.current_id (graph.py:554-555), which the
\* constructor does not reset, and neither is Order.current_id.
Graph_new(nn, ne, nd, s) ==
    /\ Driver_current_id + nd <= MaxCreateIds
    /\ \E layout \in CreateLayouts :
         LET pts == [i \in NodesOf(nn) |-> layout[i + 1]]
         IN  \E E \in EdgeSets(nn, ne, pts) :
               LET g == Graph(nn, ne, nd, pts, E, Driver_current_id)
               IN  /\ (/\ s # NoSeed
                       /\ s = seed
                       /\ <<nn, ne>> = <<num_nodes, num_edges>>)
                      => (g.node_positions = node_positions /\ g.edges = edges)
                   /\ Graph_init(g)
    /\ Driver_current_id' = Driver_current_id + nd
    /\ nodes' \in [NodesOf(nn) -> Rates]
    /\ seed' = s
    /\ log' = <<>>
    /\ UNCHANGED <<Order_current_id, phase, raised, pc, snapshot>>

\* A program constructs a Graph with a seed of its choice (main.py:16 does so
\* without one).
NewWorld ==
    /\ phase = "ready"
    /\ \E nn \in CreateNodeCounts, ne \in CreateEdgeTargets,
          nd \in CreateDriverCounts, s \in Seeds :
         /\ Graph_new(nn, ne, nd, s)
         /\ request' = [NoRequest EXCEPT !.num_nodes = nn, !.num_edges = ne,
                                         !.num_drivers = nd]
    /\ response' = NoResponse
    /\ UNCHANGED simulation_running

\* routes.py:71-184  create_simulation with hyperparameters nn, ne and nd and
\* no optimizer: a target below nn - 1 is answered with 400 (routes.py:93-99);
\* otherwise the Graph is constructed without a seed, put in the place of the
\* old one, and start_simulation_loop sets simulation_running.
create_simulation(nn, ne, nd) ==
    IF ne < nn - 1
    THEN /\ response' = Response(400, "too few edges", NoValue, NoValue)
         /\ UNCHANGED <<graphVars, worldVars, idVars, phase, raised, log, pc,
                        rateVars, serverVars>>
    ELSE /\ Graph_new(nn, ne, nd, NoSeed)
         /\ response' = Response(200, "created", NoValue, NoValue)
         /\ simulation_running' = TRUE

CreateSimulation ==
    /\ phase = "ready"
    /\ \E nn \in CreateNodeCounts, ne \in CreateEdgeTargets,
          nd \in CreateDriverCounts :
         /\ create_simulation(nn, ne, nd)
         /\ request' = [NoRequest EXCEPT !.num_nodes = nn, !.num_edges = ne,
                                         !.num_drivers = nd]

\* A tick of the world the process holds.
TickCreate ==
    /\ phase = "ready"
    /\ timestep < MaxCreateTick
    /\ \E plan \in Plans : Graph_time_step(plan, MaxCreateOrders)
    /\ response' = NoResponse
    /\ request' = NoRequest
    /\ UNCHANGED <<Driver_current_id, phase, pc, serverVars>>

\* The process of main.py with a two-node world and one driver.
InitCreate == InitWorld(Worlds({2}, {1}, CreateLayouts, {0}))

NextCreate == NewWorld \/ CreateSimulation \/ TickCreate

SpecCreate == InitCreate /\ [][NextCreate]_vars

\* ------------------------------------------------- properties of the world
\* Some order, some driver, has the id.
KnownOrder(id) == \E k \in 1 .. Len(orders) : orders[k].order_id = id
KnownDriver(id) == \E k \in 1 .. Len(drivers) : drivers[k].driver_id = id
\* The place in the list of the order, and of the driver, with the id.
OrderAt(id) == CHOOSE k \in 1 .. Len(orders) : orders[k].order_id = id
DriverAt(id) == CHOOSE k \in 1 .. Len(drivers) : drivers[k].driver_id = id
\* The order has not been picked up.
IsPending(o) == ~o.is_picked_up /\ ~o.is_delivered
\* The order is held and under way.
IsActive(o) == ~o.is_delivered
\* The orders waiting at node i.
PendingAt(i) == {k \in 1 .. Len(orders) : orders[k].pickup_node = i /\ IsPending(orders[k])}
\* The weight of the precomputed path from node i to node j.
PathWeight(i, j) == FollowWeight(edges, path_matrix, i, j, num_nodes)

\* C3: an assign-order request that names an existing order that is not
\* Delivered and an existing driver that holds no order is answered with
\* success, leaves exactly that order attached to the driver, and changes
\* neither the driver's node nor its delay.
C3_AssignAttachesOrder ==
    [][(/\ response'.code # 0
        /\ KnownOrder(response'.order_id)
        /\ KnownDriver(response'.driver_id)
        /\ ~orders[OrderAt(response'.order_id)].is_delivered
        /\ drivers[DriverAt(response'.driver_id)].order = NoOrder)
       => LET d == DriverAt(response'.driver_id)
              o == OrderAt(response'.order_id)
          IN  /\ response'.code = 200
              /\ drivers'[d].order = o
              /\ drivers'[d].current_node = drivers[d].current_node
              /\ drivers'[d].delay = drivers[d].delay]_vars

\* C4: an assign-order request for a driver that holds an active order A,
\* naming any other order B of the world, is answered with a failure, and the
\* driver still holds A; no driver, order, counter or tick counter changes.
C4_HeldOrderKept ==
    [][(/\ response'.code # 0
        /\ KnownOrder(response'.order_id)
        /\ KnownDriver(response'.driver_id)
        /\ drivers[DriverAt(response'.driver_id)].order # NoOrder
        /\ IsActive(orders[drivers[DriverAt(response'.driver_id)].order])
        /\ orders[drivers[DriverAt(response'.driver_id)].order].order_id
              # response'.order_id)
       => /\ response'.code = 400
          /\ UNCHANGED <<graphVars, worldVars, idVars>>]_vars

\* A request for a driver that holds an active order, naming another order of
\* the world that is not Delivered, has been answered.
C4_Witness ==
    /\ response.code = 400
    /\ response.message = "assignment failed"
    /\ KnownOrder(response.order_id)
    /\ KnownDriver(response.driver_id)
    /\ drivers[DriverAt(response.driver_id)].order # NoOrder
    /\ IsActive(orders[drivers[DriverAt(response.driver_id)].order])
    /\ orders[drivers[DriverAt(response.driver_id)].order].order_id # response.order_id

\* C5: an assign-order request whose order id matches no order, or whose
\* driver id matches no driver, is answered NotFound (404) and changes no
\* order, driver, counter or tick counter.
C5_UnknownIdsNotFound ==
    [][(/\ response'.code # 0
        /\ (~KnownOrder(response'.order_id) \/ ~KnownDriver(response'.driver_id)))
       => /\ response'.code = 404
          /\ UNCHANGED <<graphVars, worldVars, idVars>>]_vars

\* C5, as the route behaves: an unknown order id is answered 404; a known
\* order that is not Delivered with an unknown driver id is answered 404; a
\* known Delivered order with an unknown driver id is answered 400, the
\* answer for a Delivered order, since delivery is looked at before the driver
\* is looked up; and none of these requests changes an order, a driver, a
\* counter or the tick counter.
C5_UnknownIdsChangeNothing ==
    [][(/\ response'.code # 0
        /\ (~KnownOrder(response'.order_id) \/ ~KnownDriver(response'.driver_id)))
       => /\ response'.code =
                IF /\ KnownOrder(response'.order_id)
                   /\ orders[OrderAt(response'.order_id)].is_delivered
                THEN 400 ELSE 404
          /\ UNCHANGED <<graphVars, worldVars, idVars>>]_vars

\* A request naming an order of the world that is not Delivered and a driver
\* id that no driver has was answered NotFound.
C5_Witness ==
    /\ response.code = 404
    /\ KnownOrder(response.order_id)
    /\ ~orders[OrderAt(response.order_id)].is_delivered
    /\ ~KnownDriver(response.driver_id)
    /\ Len(drivers) > 0

\* C6: on the line 0 - 1 - 2 with unit weights, a driver that stood at node 0
\* when the order with pickup 0 and dropoff 2 was attached to it is at node 1
\* with the order PickedUp one tick later, and at node 2 with the order
\* Delivered two ticks later.
C6_LineScenario ==
    \A o \in 1 .. Len(orders), d \in 1 .. Len(drivers) :
        (/\ num_nodes = 3
         /\ edges[0][1] = 1 /\ edges[1][2] = 1 /\ edges[0][2] = 0
         /\ drivers[d].order = o
         /\ log[o].node = 0
         /\ orders[o].pickup_node = 0
         /\ orders[o].dropoff_node = 2)
        => /\ timestep = log[o].assigned + 1 =>
                /\ drivers[d].current_node = 1
                /\ orders[o].is_picked_up /\ ~orders[o].is_delivered
           /\ timestep = log[o].assigned + 2 =>
                /\ drivers[d].current_node = 2
                /\ orders[o].is_delivered

\* C7: on a connected graph, the number of ticks from the attachment of a
\* Pending order to a driver until the order is Delivered is the weight of the
\* precomputed path from the driver's node to the pickup node plus that of
\* the path from the pickup node to the dropoff node.
C7_DeliveryTimeIsPathWeight ==
    \A o \in 1 .. Len(orders) :
        (/\ Connected(edges, num_nodes)
         /\ log[o].assigned # NoNode
         /\ log[o].delivered # NoNode)
        => log[o].delivered - log[o].assigned =
              PathWeight(log[o].node, orders[o].pickup_node)
              + PathWeight(orders[o].pickup_node, orders[o].dropoff_node)

\* C8: no node is the pickup node of more than 3 Pending orders.
C8_AtMostThreePending ==
    \A i \in Nodes : Cardinality(PendingAt(i)) <= 3

\* A node with 3 Pending orders has gone through a further tick.
C8_Witness ==
    \E i \in Nodes :
        /\ Cardinality(PendingAt(i)) = 3
        /\ \A k \in PendingAt(i) : orders[k].time_created < timestep

\* C9: an order begins Pending and its status only moves forward: no order
\* leaves the list, a PickedUp order stays PickedUp, a Delivered order stays
\* Delivered, and an order becomes Delivered only from PickedUp.
C9_StatusOnlyForward ==
    [][/\ Len(orders') >= Len(orders)
       /\ \A k \in 1 .. Len(orders') :
            IF k > Len(orders)
            THEN IsPending(orders'[k])
            ELSE /\ orders[k].is_picked_up => orders'[k].is_picked_up
                 /\ orders[k].is_delivered => orders'[k].is_delivered
                 /\ (orders'[k].is_delivered /\ ~orders[k].is_delivered)
                       => orders[k].is_picked_up
                 /\ orders'[k].is_delivered => orders'[k].is_picked_up]_vars

\* An order was picked up in one tick and delivered in a later one.
C9_Witness ==
    \E o \in 1 .. Len(orders) :
        /\ orders[o].is_picked_up /\ orders[o].is_delivered
        /\ log[o].picked # NoNode
        /\ log[o].picked < log[o].delivered

\* C10: no two threads are inside Graph.time_step at once, and no thread is
\* inside Graph.do_action while a thread is inside Graph.time_step.
C10_TicksAndAssignsSerialised ==
    /\ ~(pc["loop"] = "time_step" /\ pc["train"] = "time_step")
    /\ pc["assign"] = "do_action" =>
          (pc["loop"] # "time_step" /\ pc["train"] # "time_step")

\* No thread is inside Graph.time_step.
BetweenTicks == \A t \in Threads : pc[t] # "time_step"

\* C11: the render data returned for tick t show the drivers and the orders
\* as they are at the boundary of tick t: once no tick is in progress and the
\* tick counter is still t, they are the world's drivers and orders.
C11_SnapshotAtTickBoundary ==
    (/\ pc["render"] = "idle"
     /\ snapshot # NoSnapshot
     /\ snapshot.timestep = timestep
     /\ BetweenTicks)
    => /\ snapshot.drivers = RenderDrivers(drivers, orders)
       /\ snapshot.tasks = RenderTasks(orders)

\* C12: stopping the loop takes effect between ticks only. The stop changes
\* nothing but the flag; a loop thread that has started a tick goes on to the
\* node loop and from there to the driver loop, whatever the flag says, and
\* the thread ends only from between two ticks.
C12_PauseBetweenTicks ==
    [][/\ (simulation_running /\ ~simulation_running') => UNCHANGED <<pc, worldVars>>
       /\ pc["loop"] = "time_step" => pc'["loop"] \in {"time_step", "drivers"}
       /\ pc["loop"] = "drivers" => pc'["loop"] \in {"drivers", "idle"}
       /\ (pc["loop"] = "drivers" /\ pc'["loop"] = "idle") =>
             drivers' = RunDrivers(1, [drivers |-> drivers, orders |-> orders,
                                       drivers_orders |-> drivers_orders,
                                       raised |-> FALSE]).drivers
       /\ pc'["loop"] = "exited" => pc["loop"] \in {"idle", "exited"}]_vars

\* The loop was stopped during a tick, whose node loop has run since.
C12_Witness ==
    /\ ~simulation_running
    /\ pc["loop"] = "drivers"
    /\ Len(orders) > 0

\* C13: in the tick in which a driver's picked-up order becomes Delivered, the
\* order is detached from the driver, so that the driver holds no order after
\* that tick.
C13_DeliveryDetachesOrder ==
    [][\A d \in 1 .. Len(drivers) :
          LET o == drivers[d].order
          IN  (/\ o # NoOrder
               /\ orders[o].is_picked_up
               /\ ~orders[o].is_delivered
               /\ orders'[o].is_delivered)
              => drivers'[d].order = NoOrder]_vars

\* C14: each node's pending counter equals the number of Pending orders whose
\* pickup is that node, the counter being decremented at the pickup.
C14_CounterIsPendingCount ==
    \A i \in Nodes : amount_of_orders[i] = Cardinality(PendingAt(i))

\* C15 as stated: the orders a tick creates carry the value the tick counter
\* had before the tick.
C15_CreationTickIsOldCounter ==
    [][\A k \in (Len(orders) + 1) .. Len(orders') :
          orders'[k].time_created = timestep]_vars

\* C15, amended: a tick increments the counter first, and the orders it
\* creates carry the incremented value; no other step creates an order.
C15_CreationTickIsNewCounter ==
    [][\A k \in (Len(orders) + 1) .. Len(orders') :
          /\ timestep' = timestep + 1
          /\ orders'[k].time_created = timestep']_vars

\* The last tick created an order.
C15_Witness ==
    /\ timestep >= 2
    /\ \E k \in 1 .. Len(orders) : orders[k].time_created = timestep

\* The nodes from i to j that following the next hops of pm passes, i and j
\* included.
RECURSIVE NextHopPath(_, _, _, _)
NextHopPath(pm, i, j, fuel) ==
    IF i = j \/ fuel = 0 \/ pm[i][j] = NoNode THEN <<i>>
    ELSE <<i>> \o NextHopPath(pm, pm[i][j], j, fuel - 1)

\* C16: for every driver and every node reachable from the driver's node,
\* compute_driver_path returns the node sequence from the driver's node to the
\* target that repeated next hops give, which is not empty.
C16_PathFollowsNextHops ==
    phase = "ready" =>
        \A d \in 0 .. Len(drivers) - 1 :
            \A j \in ReachableIn(edges, num_nodes, {drivers[d + 1].current_node}) :
                /\ compute_driver_path(d, j)
                      = NextHopPath(path_matrix, drivers[d + 1].current_node, j,
                                    num_nodes - 1)
                /\ compute_driver_path(d, j) # <<>>

\* C17: a construction with an edge-count target below num_nodes - 1, by the
\* Graph constructor or by create_simulation, is not rejected: the world of
\* the requested size is there afterwards and its graph is connected.
C17_SmallEdgeTargetAccepted ==
    [][(/\ request'.num_nodes # NoValue
        /\ request'.num_edges < request'.num_nodes - 1)
       => /\ response'.code \in {0, 200}
          /\ num_nodes' = request'.num_nodes
          /\ timestep' = 0
          /\ Connected(edges', num_nodes')]_vars

\* C19: a world constructed again with the parameters and the seed of the
\* world before it has the order-generation rates of that world.
C19_RatesFromSeed ==
    [][(/\ request'.num_nodes # NoValue
        /\ response'.code = 0
        /\ seed # NoSeed
        /\ seed' = seed
        /\ <<num_nodes', num_edges', num_drivers'>>
              = <<num_nodes, num_edges, num_drivers>>)
       => nodes' = nodes]_vars

\* C20: ids are issued per world: the first driver and the first order of
\* every world have the initial id 0.
C20_IdsPerWorld ==
    /\ Len(drivers) > 0 => drivers[1].id = 0
    /\ Len(orders) > 0 => orders[1].order_id = 0

\* C21: in a world of two or more nodes every order of the list has a dropoff
\* node of the world that is not its pickup node.
C21_DropoffIsNotPickup ==
    num_nodes >= 2 =>
        \A k \in 1 .. Len(orders) :
            /\ orders[k].dropoff_node \in Nodes
            /\ orders[k].dropoff_node # orders[k].pickup_node

\* A three-node world in which a tick has created an order.
C21_Witness ==
    /\ num_nodes = 3
    /\ Len(orders) > 0
    /\ orders[1].time_created = timestep

\* C22: after construction the adjacency matrix is symmetric, its entries are
\* 0 or integers of at least 1, and its diagonal is 0, also when two nodes
\* have the same position.
C22_AdjacencyWellFormed ==
    phase = "ready" =>
        \A a \in Nodes :
            /\ edges[a][a] = 0
            /\ \A b \in Nodes :
                 /\ edges[a][b] = edges[b][a]
                 /\ edges[a][b] \in Nat

CreatedAt(i) ==
    {k \in (Len(orders) + 1) .. Len(orders') : orders'[k].pickup_node = i}

\* C24: a tick takes exactly one from the delay of a driver whose delay is
\* above 0 and changes nothing else of it: its node and its order reference
\* stay, its order keeps its status, and the pending counters change by the
\* orders the tick creates only.
C24_WaitingDriverOnlyCountsDown ==
    [][timestep' = timestep + 1 =>
          \A d \in 1 .. Len(drivers) :
              drivers[d].delay > 0 =>
                  /\ drivers'[d] = [drivers[d] EXCEPT !.delay = drivers[d].delay - 1]
                  /\ drivers[d].order # NoOrder =>
                        orders'[drivers[d].order] = orders[drivers[d].order]
                  /\ \A i \in Nodes :
                        amount_of_orders'[i]
                           = amount_of_orders[i] + Cardinality(CreatedAt(i))]_vars

\* A driver with an order has one tick of a hop of weight 3 behind it.
C24_Witness ==
    \E d \in 1 .. Len(drivers) :
        /\ drivers[d].delay = 1
        /\ drivers[d].order # NoOrder
        /\ \E a \in Nodes : edges[a][drivers[d].current_node] = 3

\* The node driver drv with an order is heading for.
Target(drv) ==
    IF orders[drv.order].is_picked_up THEN orders[drv.order].dropoff_node
    ELSE orders[drv.order].pickup_node

\* The driver has delay 0 and an order that is not Delivered, and no next hop
\* towards its target.
Stranded(drv) ==
    /\ drv.delay = 0
    /\ drv.order # NoOrder
    /\ ~orders[drv.order].is_delivered
    /\ path_matrix[drv.current_node][Target(drv)] = NoNode

\* C25: a tick leaves a driver with delay 0 and no next hop towards its target
\* where it is, with its delay, its order and the order's status, and the tick
\* does not raise.
C25_NoNextHopStaysPut ==
    [][timestep' = timestep + 1 =>
          \A d \in 1 .. Len(drivers) :
              Stranded(drivers[d]) =>
                  /\ drivers'[d] = drivers[d]
                  /\ orders'[drivers[d].order] = orders[drivers[d].order]
                  /\ ~raised']_vars

\* A tick has passed a driver that has no next hop towards the pickup of its
\* order, and in that tick the other driver has picked its order up.
C25_Witness ==
    /\ Len(drivers) = 2
    /\ Stranded(drivers[1])
    /\ log[drivers[1].order].assigned < timestep
    /\ drivers[2].order # NoOrder
    /\ log[drivers[2].order].picked = timestep

\* C26: a driver that holds no order has delay 0, and a tick leaves it as it
\* is, tick after tick.
C26_IdleDriverUnchanged ==
    [][\A d \in 1 .. Len(drivers) :
          drivers[d].order = NoOrder =>
              /\ drivers[d].delay = 0
              /\ timestep' = timestep + 1 => drivers'[d] = drivers[d]]_vars

\* Three ticks have passed two drivers without an order, on different nodes,
\* and orders are waiting.
C26_Witness ==
    /\ timestep >= 3
    /\ Len(orders) > 0
    /\ Len(drivers) = 2
    /\ drivers[1].order = NoOrder
    /\ drivers[2].order = NoOrder
    /\ drivers[1].current_node # drivers[2].current_node

\* C27: no tick and no assign-order request changes the node positions, the
\* nodes' rates, the adjacency matrix, the distance matrix or the next-hop
\* matrix.
C27_GraphImmutable ==
    [][UNCHANGED <<node_positions, nodes, edges, distance_matrix, path_matrix>>]_vars

\* An assign-order request has been answered after two ticks.
C27_Witness ==
    /\ timestep >= 2
    /\ response.code # 0

C29_FlagsAtTargetHopsOverEdges ==
    [][timestep' = timestep + 1 =>
          /\ \A k \in 1 .. Len(orders) :
                /\ (~orders[k].is_picked_up /\ orders'[k].is_picked_up) =>
                      \E d \in 1 .. Len(drivers) :
                          /\ drivers[d].order = k
                          /\ drivers'[d].current_node = orders[k].pickup_node
                /\ (~orders[k].is_delivered /\ orders'[k].is_delivered) =>
                      \E d \in 1 .. Len(drivers) :
                          /\ drivers[d].order = k
                          /\ drivers'[d].current_node = orders[k].dropoff_node
          /\ \A d \in 1 .. Len(drivers) :
                drivers'[d].current_node # drivers[d].current_node =>
                    LET w == edges[drivers[d].current_node][drivers'[d].current_node]
                    IN  /\ w > 0
                        /\ drivers'[d].delay = w - 1]_vars

\* The last tick took a driver over an edge of weight 2 or more onto the
\* pickup node of its order.
C29_Witness ==
    \E d \in 1 .. Len(drivers) :
        /\ drivers[d].order # NoOrder
        /\ drivers[d].delay >= 1
        /\ log[drivers[d].order].picked = timestep
        /\ log[drivers[d].order].node # orders[drivers[d].order].pickup_node

\* The smallest weight of a path from s to t of at most fuel edges, Inf if
\* there is none.
RECURSIVE MinPathWeight(_, _, _)
MinPathWeight(s, t, fuel) ==
    IF s = t THEN 0
    ELSE IF fuel = 0 THEN Inf
    ELSE LET via == {edges[s][n] + MinPathWeight(n, t, fuel - 1) :
                        n \in {m \in Nodes : m # s /\ edges[s][m] > 0}}
             finite == {w \in via : w < Inf}
         IN  IF finite = {} THEN Inf
             ELSE CHOOSE w \in finite : \A v \in finite : w <= v

\* C30: distance_matrix[s][t] is the smallest weight of a path from s to t,
\* infinite exactly when there is none, and then and only then path_matrix[s][t]
\* is -1; path_matrix[s][s] = s; and for t # s with a path, path_matrix[s][t]
\* is a neighbour n of s with edges[s][n] + distance_matrix[n][t]
\* = distance_matrix[s][t].
C30_ShortestPaths ==
    phase = "ready" =>
        \A s, t \in Nodes :
            /\ distance_matrix[s][t] = MinPathWeight(s, t, num_nodes - 1)
            /\ (distance_matrix[s][t] = Inf) <=> (t \notin ReachableIn(edges, num_nodes, {s}))
            /\ (path_matrix[s][t] = NoNode) <=> (distance_matrix[s][t] = Inf)
            /\ path_matrix[s][s] = s
            /\ (s # t /\ distance_matrix[s][t] # Inf) =>
                  LET n == path_matrix[s][t]
                  IN  /\ n \in Nodes \ {s}
                      /\ edges[s][n] > 0
                      /\ edges[s][n] + distance_matrix[n][t] = distance_matrix[s][t]

\* A graph in which the next hop from node s to node t is a third node, and
\* a pair of nodes without a path in another.
C30_Witness ==
    /\ phase = "ready"
    /\ \E s, t \in Nodes :
          /\ s # t
          /\ path_matrix[s][t] \notin {s, t, NoNode}
          /\ edges[s][t] = 0

\* The edge sets over n nodes, an edge from a node to itself included.
EdgeSetsOver(n) == SUBSET {Edge(i, j) : i, j \in NodesOf(n)}

\* The edges of added join, one after the other, the first two of the
\* components comps and the union put last, each over a pair of smallest
\* distance between the two.
RECURSIVE JoinsInTurn(_, _, _)
JoinsInTurn(pts, comps, added) ==
    IF Len(comps) <= 1 THEN added = {}
    ELSE LET a == comps[1]
             b == comps[2]
         IN  \E e \in added :
               /\ \E i \in a, j \in b :
                     /\ e = Edge(i, j)
                     /\ \A k \in a, l \in b : Dist2(pts, i, j) <= Dist2(pts, k, l)
               /\ JoinsInTurn(pts, Append(SubSeq(comps, 3, Len(comps)), a \cup b),
                              added \ {e})

\* C31: ensure_connected, given an edge set with c components, keeps every
\* edge and adds c - 1 edges (none for c <= 1); each added edge joins the two
\* components merged at its step over a pair of smallest distance between
\* them; the result has one component.
C31_RepairJoinsComponents ==
    phase = "new" =>
        \A E \in EdgeSetsOver(num_nodes) :
            LET comps == Components(E, num_nodes)
                R == ensure_connected(E, node_positions, num_nodes)
            IN  /\ E \subseteq R
                /\ Cardinality(R \ E) = Len(comps) - 1
                /\ Len(comps) <= 1 => R = E
                /\ JoinsInTurn(node_positions, comps, R \ E)
                /\ Len(Components(R, num_nodes)) = 1

\* Three nodes at three different positions: the edgeless set has three
\* components and is repaired with two edges.
C31_Witness ==
    /\ phase = "new"
    /\ num_nodes = 3
    /\ \A i, j \in Nodes : i # j => node_positions[i] # node_positions[j]
    /\ Len(Components({}, num_nodes)) = 3
    /\ Cardinality(ensure_connected({}, node_positions, num_nodes)) = 2

\* C32: when a tick has taken a driver with an order over an edge of weight w
\* and the driver is still under way with the order undelivered, the snapshot
\* reports w as the edge weight and the progress 1/w.
C32_ProgressOverHopInProgress ==
    [][timestep' = timestep + 1 =>
          \A d \in 1 .. Len(drivers) :
              (/\ drivers'[d].current_node # drivers[d].current_node
               /\ drivers'[d].delay > 0
               /\ drivers'[d].order # NoOrder
               /\ ~orders'[drivers'[d].order].is_delivered)
              => LET w == edges[drivers[d].current_node][drivers'[d].current_node]
                 IN  /\ ReportedWeight(drivers'[d], orders') = w
                     /\ Progress(drivers'[d], orders') = <<1, w>>]_vars

\* ------------------------------------------------ DeliveryEnv.step, SpecEnv
\* Largest tick counter reached in SpecEnv.
MaxEnvTick == 3
\* Largest number of orders generated in SpecEnv.
MaxEnvOrders == 2
\* The numbers of drivers of the worlds of SpecEnv.
EnvDriverCounts == {1, 2}
\* rl_environment.py:28  max_pending_orders: int = 10
max_pending_orders == 10

\* A plausible slip: every undelivered order counts as pending.
PendingOrders_undelivered(ords) ==
    LET F[k \in 0 .. Len(ords)] ==
            IF k = 0 THEN <<>>
            ELSE IF ~ords[k].is_delivered THEN Append(F[k - 1], k) ELSE F[k - 1]
    IN  F[Len(ords)]

\* rl_environment.py:121-123  _get_pending_orders: the orders neither
\* delivered nor picked up, in the order of the list, as their places in it.
PendingOrders(ords) ==
    LET F[k \in 0 .. Len(ords)] ==
            IF k = 0 THEN <<>>
            ELSE IF ~ords[k].is_delivered /\ ~ords[k].is_picked_up
            THEN Append(F[k - 1], k) ELSE F[k - 1]
    IN  F[Len(ords)]

\* rl_environment.py:62-64  spaces.Discrete(max_pending_orders * (num_drivers + 1))
ActionSpace == 0 .. (max_pending_orders * (num_drivers + 1) - 1)

\* rl_environment.py:159-161, 168: the order index is within the pending
\* orders and the driver id names a driver.
Assigns(action) ==
    /\ action \div (num_drivers + 1) < Len(PendingOrders(orders))
    /\ action % (num_drivers + 1) < num_drivers

\* rl_environment.py:169-179: the assignment handed to Graph.do_action, made
\* of the ids of the order and the driver found at the decoded places;
\* NoRequest when nothing is handed over.
AssignmentAction(action) ==
    LET order == orders[PendingOrders(orders)[(action \div (num_drivers + 1)) + 1]]
        driver == drivers[(action % (num_drivers + 1)) + 1]
    IN  IF Assigns(action)
        THEN [NoRequest EXCEPT !.order_id = order.order_id,
                               !.driver_id = driver.driver_id]
        ELSE NoRequest

\* rl_environment.py:143-194  DeliveryEnv.step up to the return of
\* Graph.time_step, for one outcome of the draws: the action is decoded, an
\* assignment is handed to Graph.do_action when there is one, and the world
\* ticks once. request is the assignment handed over.
DeliveryEnv_step(action, plan, cap) ==
    LET assignment_action == AssignmentAction(action)
        after == IF Assigns(action)
                 THEN Graph_do_action(drivers, orders, assignment_action.order_id,
                                      assignment_action.driver_id)
                 ELSE drivers
    IN  /\ request' = assignment_action
        /\ timestep' = timestep + 1
        /\ Graph_time_step_loops_on(after, plan, cap, timestep + 1)
        /\ UNCHANGED <<graphVars, rateVars>>

\* dqn_optimizer.py:108-130  train_step: one call of DeliveryEnv.step with an
\* action of the action space.
EnvStep ==
    /\ phase = "ready"
    /\ timestep < MaxEnvTick
    /\ \E action \in ActionSpace, plan \in Plans :
         DeliveryEnv_step(action, plan, MaxEnvOrders)
    /\ response' = NoResponse
    /\ UNCHANGED <<Driver_current_id, phase, pc, serverVars>>

InitEnv == InitWorld(Worlds({2}, EnvDriverCounts, {LineLayout}, {0}))

NextEnv == EnvStep \/ AttachOrder

SpecEnv == InitEnv /\ [][NextEnv]_vars

\* The number of pending orders ahead of place k of the order list.
PendingBefore(k) == Cardinality({j \in 1 .. (k - 1) : IsPending(orders[j])})

\* What C33 says of a step with the action, read on the step's two states.
StepAsDecoded(action) ==
    LET order_index == action \div (num_drivers + 1)
        driver_id == action % (num_drivers + 1)
        pending == Cardinality({k \in 1 .. Len(orders) : IsPending(orders[k])})
    IN  IF order_index >= pending \/ driver_id = num_drivers
        THEN /\ request' = NoRequest
             /\ \A d \in 1 .. Len(drivers) : drivers'[d].order = drivers[d].order
        ELSE \E k \in 1 .. Len(orders) :
                /\ IsPending(orders[k])
                /\ PendingBefore(k) = order_index
                /\ request'.order_id = orders[k].order_id
                /\ request'.driver_id = drivers[driver_id + 1].driver_id

\* C33: a step of the environment (in SpecEnv, every step that attaches no
\* order) adds one to the tick counter whatever the action; an action whose
\* order index (action div (num_drivers + 1)) is not below the number of
\* pending orders, or whose driver id (action mod (num_drivers + 1)) is
\* num_drivers, hands over no assignment and changes no driver's order; any
\* other action names the order at that place of the pending orders of before
\* the step and the driver at that place of the list.
C33_StepDecodesAndTicksOnce ==
    [][~AttachOrder =>
          /\ timestep' = timestep + 1
          /\ \A action \in ActionSpace :
                request' = AssignmentAction(action) => StepAsDecoded(action)]_vars

\* A step has named an order that stands behind a picked-up order in the list.
C33_Witness ==
    /\ request.order_id # NoRequest.order_id
    /\ timestep >= 2
    /\ \E k \in 1 .. Len(orders) :
          /\ orders[k].order_id = request.order_id
          /\ \E j \in 1 .. (k - 1) :
                /\ log[j].picked # NoNode
                /\ log[j].picked < timestep

\* ------------------------------------- starting and stopping, SpecLoops
\* The loop threads: the one main.py:49 starts and one a later start creates.
LoopThreads == {"loop", "loop2"}

\* The loop threads that have been started and have not ended.
LiveLoops == {t \in LoopThreads : pc[t] \notin {"unstarted", "exited"}}

\* websocket_handler.py:73  `while simulation_running`, evaluated by loop
\* thread t at its start and after each sleep: the thread goes on into the
\* body or leaves the loop and ends.
LoopTest(t) ==
    /\ pc[t] = "idle"
    /\ pc' = [pc EXCEPT ![t] = IF simulation_running THEN "entered" ELSE "exited"]
    /\ UNCHANGED <<graphVars, worldVars, idVars, phase, obsVars, request, rateVars,
                   serverVars>>

\* websocket_handler.py:74-76  loop thread t calls AppState.time_step, whose
\* Graph.time_step starts with self.timestep += 1 (graph.py:358).
LoopCall(t) ==
    /\ phase = "ready"
    /\ pc[t] = "entered"
    /\ timestep < MaxConcTick
    /\ timestep' = timestep + 1
    /\ pc' = [pc EXCEPT ![t] = "time_step"]
    /\ UNCHANGED <<graphVars, orders, drivers, amount_of_orders, drivers_orders,
                   idVars, phase, obsVars, request, rateVars, serverVars>>

\* websocket_handler.py:62-89  start_simulation_loop: nothing happens when the
\* flag is set; otherwise the flag is set and a new thread starts at the test
\* of the loop. The model has room for the loop threads of LoopThreads.
start_simulation_loop ==
    IF simulation_running
    THEN UNCHANGED vars
    ELSE /\ \E t \in LoopThreads : pc[t] \in {"unstarted", "exited"}
         /\ simulation_running' = TRUE
         /\ LET t == CHOOSE t \in LoopThreads : pc[t] \in {"unstarted", "exited"}
            IN  pc' = [pc EXCEPT ![t] = "idle"]
         /\ UNCHANGED <<graphVars, worldVars, idVars, phase, obsVars, request,
                        rateVars, snapshot>>

\* routes.py:320-345  resume_simulation, and set_speed (routes.py:367-372):
\* start_simulation_loop is called.
ResumeSimulation ==
    /\ phase = "ready"
    /\ start_simulation_loop

LoopTests == \E t \in LoopThreads : LoopTest(t)
LoopCalls == \E t \in LoopThreads : LoopCall(t)
LoopNodeSteps == \E t \in LoopThreads : LoopNodesOf(t)
LoopDriverSteps == \E t \in LoopThreads : LoopDriversOf(t)

InitLoops == InitWorld(Worlds({2}, {1}, {LineLayout}, {0}))

NextLoops ==
    \/ LoopTests
    \/ LoopCalls
    \/ LoopNodeSteps
    \/ LoopDriverSteps
    \/ PauseSimulation
    \/ ResumeSimulation

SpecLoops == InitLoops /\ [][NextLoops]_vars

\* C34: while the loop is switched on, at most one loop thread is alive.
C34_OneLoopThread == simulation_running => Cardinality(LiveLoops) <= 1

\* C35: a tick applied while the loop is switched off is the last one: no
\* loop thread is left that has passed the test of the flag and goes on to
\* tick without the loop being started again.
C35_OneFurtherTick ==
    [][(~simulation_running /\ ~simulation_running' /\ timestep' # timestep)
          => \A t \in LoopThreads : pc'[t] # "entered"]_vars

\* C36: no driver's delay is ever below 0.
C36_DelayNonNegative == \A d \in 1 .. Len(drivers) : drivers[d].delay >= 0

\* C37: no tick raises in a world of one node.
C37_OneNodeTickCompletes == num_nodes = 1 => ~raised

\* ------------------------------- deliveries in later worlds, SpecLater
\* The process of main.py, in which create-simulation requests replace the
\* world and the drivers of each world are given orders.
InitLater == InitWorld(Worlds({2}, {1}, CreateLayouts, {0}))

NextLater == CreateSimulation \/ TickAttached \/ AttachOrder

SpecLater == InitLater /\ [][NextLater]_vars

\* C38: a tick in which an order is delivered does not raise.
C38_DeliveryTickCompletes ==
    [][(/\ timestep' = timestep + 1
        /\ \E k \in 1 .. Len(orders) :
              orders'[k].is_delivered /\ ~orders[k].is_delivered)
          => ~raised']_vars

\* ------------------------------------- ticks that keep occurring, SpecLive
\* The worlds of SpecAttached with the loop thread ticking: a tick that can
\* be taken is taken (websocket_handler.py:73-85), as long as the counter is
\* below MaxLifeTick.
InitLive == InitWorld(Worlds({3}, {1}, {LineLayout, WeightedLayout}, {0}))

NextLive == TickAttached \/ AttachOrder

\* A step of SpecLive that is a tick: TickAttached is the one action that
\* writes the counter, and it can be taken whenever the counter is below
\* MaxLifeTick (some draw generates nothing).
TickTaken == timestep < MaxLifeTick /\ timestep' = timestep + 1

\* TickAttached can be taken exactly when TickTaken can.
TickEnabled == (timestep < MaxLifeTick) = ENABLED TickAttached

SpecLive == InitLive /\ [][NextLive]_vars /\ WF_timestep(TickTaken)

\* The ticks that suffice for the driver to deliver the order it holds: the
\* rest of its hop, the route to the pickup node unless the order is picked
\* up, the route to the dropoff node, and one tick for a hop onto the own node.
TicksToDeliver(drv) ==
    LET o == orders[drv.order]
    IN  Max2(drv.delay, 0) + 1 +
        (IF o.is_picked_up THEN distance_matrix[drv.current_node][o.dropoff_node]
         ELSE distance_matrix[drv.current_node][o.pickup_node]
              + distance_matrix[o.pickup_node][o.dropoff_node])

\* Some driver holds order k, which is not Delivered, and the ticks SpecLive
\* has left suffice for the delivery.
HeldWithTicksLeft(k) ==
    /\ k \in 1 .. Len(orders)
    /\ ~orders[k].is_delivered
    /\ \E d \in 1 .. Len(drivers) :
          /\ drivers[d].order = k
          /\ timestep + TicksToDeliver(drivers[d]) <= MaxLifeTick

\* Order k has been picked up and delivered.
PickedUpAndDelivered(k) ==
    /\ k \in 1 .. Len(orders)
    /\ orders[k].is_picked_up
    /\ orders[k].is_delivered

\* C39: on the connected worlds of SpecLive, with ticks occurring, an order
\* that a driver holds and that is not Delivered is eventually PickedUp and
\* Delivered.
C39_HeldOrderIsDelivered ==
    \A k \in 1 .. MaxHeld : HeldWithTicksLeft(k) ~> PickedUpAndDelivered(k)

\* An order was given to a driver that stood on another node than its pickup
\* node, with the ticks left sufficing, and has been delivered.
C39_Witness ==
    \E k \in 1 .. Len(orders) :
        /\ orders[k].is_delivered
        /\ log[k].assigned # NoNode
        /\ log[k].node # orders[k].pickup_node
        /\ log[k].assigned + 1 + distance_matrix[log[k].node][orders[k].pickup_node]
              + distance_matrix[orders[k].pickup_node][orders[k].dropoff_node]
              <= MaxLifeTick
        /\ Connected(edges, num_nodes)

====
